---- MODULE Spec2Model ----
(***************************************************************************)
(* A model of slack/rtm/client.py: the RTMClient connection lifecycle      *)
(* (start, _connect_and_read, _read_messages, stop), event dispatch,       *)
(* callback registration, sending over the websocket and the reconnect     *)
(* delay.                                                                  *)
(*                                                                         *)
(* The coroutine _connect_and_read runs on an asyncio event loop: it runs  *)
(* without interruption from one await to the next, so every action of the *)
(* supervisor below is the code between two suspension points (the         *)
(* bootstrap call, the websocket handshake, the next frame, the sleep).    *)
(* stop(), the send operations and the transport's own changes interleave  *)
(* at these points.                                                        *)
(***************************************************************************)
EXTENDS Integers, Sequences, FiniteSets, TLC

VARIABLES
    callbacks,            \* self._callbacks: event name -> list of callbacks
    run_async,            \* self.run_async
    auto_reconnect,       \* self.auto_reconnect
    websocket,            \* self._websocket: "None" or "ws"
    last_message_id,      \* self._last_message_id
    connection_attempts,  \* self._connection_attempts
    stopped,              \* self._stopped
    loop_running,         \* self._event_loop.is_running() when start() is called
    pc,                   \* where the _connect_and_read task is suspended
    startResult,          \* what the call start() gave its caller
    outcome,              \* the result of the future of _connect_and_read
    transport,            \* state of the websocket object of the latest connection
    data,                 \* local `data` of _connect_and_read (bootstrap payload)
    log,                  \* history: synthetic events emitted and supervisor milestones
    last,                 \* history: the most recent _dispatch_event call
    sentIds,              \* history: ids of the frames transmitted on this connection
    dupSent,              \* history: some id was transmitted twice on this connection
    autoIds,              \* history: the transmitted ids that _next_msg_id assigned
    dupAuto,              \* history: an id _next_msg_id assigned was transmitted twice
    lastSend,             \* history: the most recent send/ping/typing call
    regResult,            \* history: the most recent on() call
    lastWait,             \* history: the most recent delay _wait_exponentially computed
    task2                 \* the task of a second start() call: where it is suspended
                          \* (pc) and its local `data`

vars == <<callbacks, run_async, auto_reconnect, websocket, last_message_id,
          connection_attempts, stopped, loop_running, pc, startResult, outcome,
          transport, data, log, last, sentIds, dupSent, autoIds, dupAuto, lastSend,
          regResult, lastWait, task2>>

clientVars == <<callbacks, run_async, auto_reconnect, loop_running>>
sendVars == <<last_message_id, sentIds, dupSent, autoIds, dupAuto, lastSend>>

-----------------------------------------------------------------------------
(* Bounds of the model *)

\* connection attempts explored (guard on self._connection_attempts += 1)
MaxAttempts == 3
\* stop() calls explored
MaxStops == 2
\* ids the counter may hand out (guard on self._last_message_id += 1)
MaxMsgId == 3
\* on() calls explored in the registry specification
MaxReg == 3
\* connection attempts the delay is computed for
MaxN == 4

-----------------------------------------------------------------------------
(* Values *)

None == "None"

EventNames == {"open", "close", "error", "message", "Unknown"}

\* python's None passed as `data` (the close event)
NoneData == [null |-> "None"]

\* exceptions, by class and by who raised them
NoExc == [kind |-> "None", origin |-> "None"]
Pending == [kind |-> "pending", origin |-> "None"]
Returned == [kind |-> "returned", origin |-> "None"]
BootstrapError == [kind |-> "SlackApiError", origin |-> "bootstrap"]
TransportError == [kind |-> "ClientError", origin |-> "transport"]
HandlerExc(k) == [kind |-> k, origin |-> "handler"]

\* what one callback invocation does: returns, or raises an exception of that class
HandlerOutcomes == {"ok", "Exception", "SlackApiError"}

\* inbound text frames (decoded JSON objects)
FrameMessage == [type |-> "message", text |-> "Hello", channel |-> "C1"]
FrameNoType == [text |-> "Hello", channel |-> "C1"]
Frames == {FrameMessage, FrameNoType}
NoFrame == [null |-> "None"]

\* bootstrap responses of WebClient.rtm_connect(): resp.get("url") and resp.data
Responses == {[url |-> "wss://example/1", data |-> [self |-> "U1"]],
              [url |-> "wss://example/2", data |-> [self |-> "U2"]],
              [url |-> None, data |-> [ok |-> "false"]]}

NoDispatch == [event |-> None, data |-> NoneData, frame |-> NoFrame,
               invoked |-> <<>>, failed |-> {}, raised |-> NoExc, stopped |-> FALSE,
               afterFailure |-> FALSE]

NoSend == [op |-> None, given |-> NoFrame, raised |-> None, sent |-> FALSE,
           frame |-> NoFrame]

NoWait == [n |-> 0, hint |-> <<>>, ceiling |-> 0, jitter |-> 0, delay |-> 0]

NoTask == [pc |-> "idle", data |-> NoneData]

NoReg == [n |-> 0, form |-> None, event |-> None, given |-> <<>>, raised |-> None,
          repeat |-> FALSE]

Count(s, x) == Cardinality({i \in 1..Len(s) : s[i] = x})

Range(s) == {s[i] : i \in 1..Len(s)}

-----------------------------------------------------------------------------
(* _dispatch_event *)

\* a dispatcher that skips the callbacks of every event once stopped
SkipCallbacksOfEveryEvent(stop, event) == stop

\* line 384: callbacks are skipped once the client is stopped, unless close/error
SkipCallbacks(stop, event) == stop /\ event \notin {"close", "error"}

\* a dispatcher that re-raises what a callback raised in both modes
PropagatesInEveryMode(async, result) == result # "ok"

\* lines 388-391, 399-432: in synchronous mode _execute_callback waits for the
\* callback and future.result() re-raises what it raised; in concurrent mode
\* _execute_callback_async only schedules it, so nothing it raises comes back
Propagates(async, result) == ~async /\ result # "ok"

\* lines 377-397: res[i] is what the i-th callback of the event does when run.
\* The result records the callbacks run (with the registry key they were found
\* under and the data they got), those that failed, the exception re-raised, the
\* stop flag it read and, for a frame, whether a callback of the frame before
\* it had failed.
DispatchEvent(event, d, frame, stop, res) ==
    LET cbs == callbacks[event]
        bad == {i \in 1..Len(cbs) : Propagates(run_async, res[i])}
        firstBad == IF bad = {} THEN 0 ELSE CHOOSE i \in bad : \A j \in bad : i <= j
        n == IF SkipCallbacks(stop, event) THEN 0
             ELSE IF firstBad = 0 THEN Len(cbs) ELSE firstBad
    IN  [event |-> event, data |-> d, frame |-> frame,
         invoked |-> [i \in 1..n |-> [cb |-> cbs[i], key |-> event, data |-> d]],
         failed |-> {i \in 1..n : res[i] # "ok"},
         raised |-> IF n = 0 \/ firstBad = 0 THEN NoExc ELSE HandlerExc(res[firstBad]),
         stopped |-> stop,
         afterFailure |-> frame # NoFrame /\ last.frame # NoFrame /\ last.failed # {}]

\* the choices of what each callback of an event does
Results(event) == [1..Len(callbacks[event]) -> HandlerOutcomes]

-----------------------------------------------------------------------------
(* _connect_and_read: the supervisor loop *)

\* lines 329-333: the exception classes the except clause catches
Retryable(exc) == exc.kind \in {"SlackClientNotConnectedError", "SlackApiError"}

\* line 336
ShouldReconnect(auto, stop) == auto /\ ~stop

\* a read loop that goes on for as long as there is a handle
KeepReadingWhileHandle(stop, ws) == ws # None

\* line 350: the condition of the outer loop of _read_messages
KeepReading(stop, ws) == ~stop /\ ws # None

\* lines 497-499: close() is scheduled on the handle, fire and forget
CloseRequested(ws, tr) == IF ws # None /\ tr = "open" THEN "closing" ELSE tr

\* a loop that starts the next attempt without testing the stop flag
LoopTopWithoutTest(l) ==
    /\ connection_attempts < MaxAttempts
    /\ connection_attempts' = connection_attempts + 1
    /\ pc' = "bootstrap"
    /\ outcome' = outcome
    /\ log' = Append(l, "attempt")

\* lines 310-318: the test of `while not self._stopped`, then the code up to the
\* await of the bootstrap call; when the test fails the coroutine returns.
\* l is the log so far.
LoopTop(l) ==
    IF ~stopped
    THEN /\ connection_attempts < MaxAttempts
         /\ connection_attempts' = connection_attempts + 1
         /\ pc' = "bootstrap"
         /\ outcome' = outcome
         /\ log' = Append(l, "attempt")
    ELSE /\ pc' = "done"
         /\ outcome' = Returned
         /\ log' = l
         /\ connection_attempts' = connection_attempts

\* lines 329-343: exception exc leaves the try block. ws is the handle and tr the
\* transport's state at that point, l the log so far, rec the latest dispatch.
Raise(exc, ws, tr, l, rec) ==
    /\ connection_attempts' = connection_attempts
    /\ IF Retryable(exc)
       THEN \E res \in Results("error") :
              LET e == DispatchEvent("error", exc, NoFrame, stopped, res) IN
              IF e.raised # NoExc
              THEN \* a callback of `error` raised inside the except clause
                   /\ pc' = "done"
                   /\ outcome' = e.raised
                   /\ log' = Append(l, "error")
                   /\ last' = e
                   /\ websocket' = ws
                   /\ transport' = tr
              ELSE IF ShouldReconnect(auto_reconnect, stopped)
              THEN \* _wait_exponentially, then continue
                   /\ pc' = "wait"
                   /\ outcome' = outcome
                   /\ log' = l \o <<"error", "wait">>
                   /\ last' = e
                   /\ websocket' = ws
                   /\ transport' = tr
              ELSE \* _close_websocket, then raise
                   \E res2 \in Results("close") :
                     LET c == DispatchEvent("close", NoneData, NoFrame, stopped, res2) IN
                     /\ pc' = "done"
                     /\ outcome' = IF c.raised # NoExc THEN c.raised ELSE exc
                     /\ log' = l \o <<"error", "close">>
                     /\ last' = c
                     /\ websocket' = None
                     /\ transport' = CloseRequested(ws, tr)
       ELSE /\ pc' = "done"
            /\ outcome' = exc
            /\ log' = l
            /\ last' = rec
            /\ websocket' = ws
            /\ transport' = tr

-----------------------------------------------------------------------------
(* start and stop *)

\* lines 183-188: the task is scheduled, then the assertion is evaluated
StartOutcome(async, running) == IF async \/ running THEN "AssertionError" ELSE "future"

Start ==
    /\ pc = "idle"
    /\ pc' = "scheduled"
    /\ startResult' = StartOutcome(run_async, loop_running)
    /\ UNCHANGED <<clientVars, sendVars, websocket, connection_attempts, stopped,
                   outcome, transport, data, log, last, regResult, lastWait, task2>>

\* the event loop runs the scheduled coroutine for the first time
TaskBegin ==
    /\ pc = "scheduled"
    /\ LoopTop(log)
    /\ UNCHANGED <<clientVars, sendVars, websocket, stopped, startResult,
                   transport, data, last, regResult, lastWait, task2>>

\* lines 190-194 and 495-501
Stop ==
    /\ Count(log, "stop") < MaxStops
    /\ stopped' = TRUE
    /\ transport' = CloseRequested(websocket, transport)
    /\ websocket' = None
    /\ \E res \in Results("close") :
         last' = DispatchEvent("close", NoneData, NoFrame, TRUE, res)
    /\ log' = log \o <<"stop", "close">>
    /\ UNCHANGED <<clientVars, sendVars, connection_attempts, pc, startResult,
                   outcome, data, regResult, lastWait, task2>>

-----------------------------------------------------------------------------
(* the attempt: bootstrap, handshake, read loop, wait *)

\* lines 318 and 470-474: the bootstrap call returns resp
Bootstrap ==
    /\ pc = "bootstrap"
    /\ \E resp \in Responses :
         IF resp.url = None
         THEN /\ Raise(BootstrapError, websocket, transport,
                        Append(log, "bootstrap_failed"), last)
              /\ data' = data
         ELSE /\ pc' = "connecting"
              /\ data' = resp.data
              /\ log' = Append(log, "bootstrap_ok")
              /\ UNCHANGED <<websocket, connection_attempts, outcome, transport,
                             last>>
    /\ UNCHANGED <<clientVars, sendVars, stopped, startResult, regResult, lastWait, task2>>

\* line 318: the bootstrap request itself fails (connection error, timeout)
BootstrapTransportFails ==
    /\ pc = "bootstrap"
    /\ Raise(TransportError, websocket, transport, log, last)
    /\ UNCHANGED <<clientVars, sendVars, stopped, startResult, data, regResult, lastWait, task2>>

\* a handshake after which _read_messages is entered with no `open` dispatched
ConnectWithoutOpen ==
    /\ pc = "connecting"
    /\ sentIds' = {}
    /\ dupSent' = FALSE
    /\ autoIds' = {}
    /\ dupAuto' = FALSE
    /\ websocket' = "ws"
    /\ IF KeepReading(stopped, "ws")
       THEN /\ pc' = "read"
            /\ transport' = "open"
            /\ UNCHANGED <<connection_attempts, outcome, log>>
       ELSE /\ transport' = "closed"
            /\ LoopTop(log)
    /\ UNCHANGED <<clientVars, last_message_id, lastSend, stopped, startResult,
                   data, last, regResult, lastWait, task2>>

\* lines 319-328: the handshake succeeds; the handle is stored, `open` is
\* dispatched and _read_messages is entered
ConnectOk ==
    /\ pc = "connecting"
    /\ sentIds' = {}
    /\ dupSent' = FALSE
    /\ autoIds' = {}
    /\ dupAuto' = FALSE
    /\ \E res \in Results("open") :
         LET o == DispatchEvent("open", data, NoFrame, stopped, res)
             l == Append(log, "open")
         IN  IF o.raised # NoExc
             THEN Raise(o.raised, "ws", "closed", l, o)
             ELSE /\ websocket' = "ws"
                  /\ last' = o
                  /\ IF KeepReading(stopped, "ws")
                     THEN /\ pc' = "read"
                          /\ transport' = "open"
                          /\ log' = l
                          /\ UNCHANGED <<connection_attempts, outcome>>
                     ELSE /\ transport' = "closed"
                          /\ LoopTop(l)
    /\ UNCHANGED <<clientVars, last_message_id, lastSend, stopped, startResult,
                   data, regResult, lastWait, task2>>

\* line 319: the handshake fails (aiohttp raises); no except clause names it
ConnectFails ==
    /\ pc = "connecting"
    /\ Raise(TransportError, websocket, transport, log, last)
    /\ UNCHANGED <<clientVars, sendVars, stopped, startResult, data, regResult, lastWait, task2>>

\* line 354: payload.pop("type", "Unknown")
Pop(payload, key, default) == IF key \in DOMAIN payload THEN payload[key] ELSE default

\* a pop that leaves the key in the payload
KeepingKey(payload, key) == payload

\* line 354: the payload after the pop
Without(payload, key) == [k \in DOMAIN payload \ {key} |-> payload[k]]

\* lines 351-355: a text frame arrives and is dispatched
RecvText ==
    /\ pc = "read"
    /\ transport \in {"open", "closing"}
    /\ \E f \in Frames :
         LET event == Pop(f, "type", "Unknown")
             payload == Without(f, "type")
         IN  \E res \in Results(event) :
               LET r == DispatchEvent(event, payload, f, stopped, res) IN
               IF r.raised # NoExc
               THEN Raise(r.raised, websocket, "closed", log, r)
               ELSE /\ last' = r
                    /\ UNCHANGED <<websocket, connection_attempts, pc, outcome,
                                   transport, log>>
    /\ UNCHANGED <<clientVars, sendVars, stopped, startResult, data, regResult, lastWait, task2>>

\* lines 356-357: an ERROR frame (the transport has failed and is closed): break
RecvError ==
    /\ pc = "read"
    /\ transport \in {"open", "closing"}
    /\ transport' = "closed"
    /\ pc' = "readcheck"
    /\ log' = Append(log, "error_frame")
    /\ UNCHANGED <<clientVars, sendVars, websocket, connection_attempts, stopped,
                   startResult, outcome, data, last, regResult, lastWait, task2>>

\* the peer closes the connection
PeerCloses ==
    /\ transport = "open"
    /\ transport' = "closed"
    /\ UNCHANGED <<clientVars, sendVars, websocket, connection_attempts, stopped,
                   pc, startResult, outcome, data, log, last, regResult, lastWait, task2>>

\* the close() scheduled by _close_websocket completes
CloseCompletes ==
    /\ transport = "closing"
    /\ transport' = "closed"
    /\ UNCHANGED <<clientVars, sendVars, websocket, connection_attempts, stopped,
                   pc, startResult, outcome, data, log, last, regResult, lastWait, task2>>

\* line 351: iterating a closed websocket ends at once
IterEnds ==
    /\ pc = "read"
    /\ transport = "closed"
    /\ pc' = "readcheck"
    /\ UNCHANGED <<clientVars, sendVars, websocket, connection_attempts, stopped,
                   startResult, outcome, transport, data, log, last, regResult, lastWait, task2>>

\* line 350: after the inner loop ended, the outer condition is tested again
ReadCheck ==
    /\ pc = "readcheck"
    /\ IF KeepReading(stopped, websocket)
       THEN /\ pc' = "read"
            /\ UNCHANGED <<connection_attempts, outcome, transport, log>>
       ELSE /\ transport' = "closed"
            /\ LoopTop(log)
    /\ UNCHANGED <<clientVars, sendVars, websocket, stopped, startResult, data,
                   last, regResult, lastWait, task2>>

\* lines 337-338 and 493: the sleep of _wait_exponentially ends; continue
SleepDone ==
    /\ pc = "wait"
    /\ LoopTop(log)
    /\ UNCHANGED <<clientVars, sendVars, websocket, stopped, startResult,
                   transport, data, last, regResult, lastWait, task2>>

-----------------------------------------------------------------------------
(* start() called again: a second _connect_and_read task on the same client.
   Its bootstrap call and handshake are followed where they succeed; the
   websocket it opens is "ws2". *)

\* lines 183-188, on a client whose first task was already scheduled
StartAgain ==
    /\ pc # "idle"
    /\ task2.pc = "idle"
    /\ task2' = [task2 EXCEPT !.pc = "scheduled"]
    /\ startResult' = StartOutcome(run_async, loop_running)
    /\ UNCHANGED <<clientVars, sendVars, websocket, connection_attempts, stopped, pc,
                   outcome, transport, data, log, last, regResult, lastWait>>

\* lines 310-318 in the second task
SecondTaskBegin ==
    /\ task2.pc = "scheduled"
    /\ IF ~stopped
       THEN /\ connection_attempts < MaxAttempts
            /\ connection_attempts' = connection_attempts + 1
            /\ task2' = [task2 EXCEPT !.pc = "bootstrap"]
            /\ log' = Append(log, "attempt")
       ELSE /\ task2' = [task2 EXCEPT !.pc = "done"]
            /\ UNCHANGED <<connection_attempts, log>>
    /\ UNCHANGED <<clientVars, sendVars, websocket, stopped, pc, startResult, outcome,
                   transport, data, last, regResult, lastWait>>

\* lines 318 and 470-474 in the second task: the bootstrap call returns a url
SecondBootstrap ==
    /\ task2.pc = "bootstrap"
    /\ \E resp \in Responses :
         /\ resp.url # None
         /\ task2' = [pc |-> "connecting", data |-> resp.data]
    /\ log' = Append(log, "bootstrap_ok")
    /\ UNCHANGED <<clientVars, sendVars, websocket, connection_attempts, stopped, pc,
                   startResult, outcome, transport, data, last, regResult, lastWait>>

\* lines 319-328 in the second task: the handshake succeeds, the handle is
\* replaced by the new websocket, `open` is dispatched (its callbacks return)
\* and _read_messages is entered a second time
SecondConnectOk ==
    /\ task2.pc = "connecting"
    /\ websocket' = "ws2"
    /\ \E res \in Results("open") :
         LET o == DispatchEvent("open", task2.data, NoFrame, stopped, res) IN
         /\ o.raised = NoExc
         /\ last' = o
    /\ log' = Append(log, "open")
    /\ task2' = [task2 EXCEPT !.pc = IF KeepReading(stopped, "ws2") THEN "read" ELSE "done"]
    /\ UNCHANGED <<clientVars, sendVars, connection_attempts, stopped, pc, startResult,
                   outcome, transport, data, regResult, lastWait>>

-----------------------------------------------------------------------------
(* send_over_websocket, ping, typing *)

\* payloads given to send_over_websocket: without an id, and with the caller's
BasePayload == [type |-> "typing", channel |-> "C1"]
CallerIds == {1}
WithId(payload, i) ==
    [k \in DOMAIN payload \cup {"id"} |-> IF k = "id" THEN i ELSE payload[k]]
Payloads == {BasePayload} \cup {WithId(BasePayload, i) : i \in CallerIds}

Channels == {"C1"}

\* the smallest positive integer not in S
SmallestUnused(S) ==
    CHOOSE n \in 1..(Cardinality(S) + 1) : n \notin S /\ \A m \in 1..(n - 1) : m \in S

\* line 220 (self._event_loop is set by __init__ and never cleared)
NotConnected(ws) == ws = None

\* a counter that is not incremented
NextMsgIdRepeated(counter) == counter

\* lines 292-293: the new value of the counter, which is the id returned
NextMsgId(counter) == counter + 1

\* lines 224-225: the id is added when the payload has none
AssignId(payload, counter) ==
    IF "id" \in DOMAIN payload THEN payload ELSE WithId(payload, NextMsgId(counter))

\* lines 226-228: send_str is scheduled on the handle; the frame goes out on the
\* wire if that websocket is open, and send_str fails in its own task otherwise
Transmits(tr) == tr = "open"

\* lines 220-228. op is the caller (send, ping or typing), given its payload,
\* counter the value of _last_message_id when send_over_websocket is entered;
\* auto says the id comes from _next_msg_id.
SendOverWebsocket(op, given, counter, auto) ==
    IF NotConnected(websocket)
    THEN /\ last_message_id' = counter
         /\ lastSend' = [op |-> op, given |-> given,
                         raised |-> "SlackClientNotConnectedError", sent |-> FALSE,
                         frame |-> NoFrame]
         /\ UNCHANGED <<sentIds, dupSent, autoIds, dupAuto>>
    ELSE LET frame == AssignId(given, counter)
             out == Transmits(transport)
         IN  /\ last_message_id' = IF "id" \in DOMAIN given THEN counter ELSE NextMsgId(counter)
             /\ lastSend' = [op |-> op, given |-> given, raised |-> None, sent |-> out,
                             frame |-> IF out THEN frame ELSE NoFrame]
             /\ sentIds' = IF out THEN sentIds \cup {frame["id"]} ELSE sentIds
             /\ dupSent' = (dupSent \/ (out /\ frame["id"] \in sentIds))
             /\ autoIds' = IF out /\ auto THEN autoIds \cup {frame["id"]} ELSE autoIds
             /\ dupAuto' = (dupAuto \/ (out /\ auto /\ frame["id"] \in autoIds))

\* lines 196-228, called by the application
Send ==
    /\ \E payload \in Payloads :
         /\ "id" \in DOMAIN payload \/ last_message_id < MaxMsgId
         /\ SendOverWebsocket("send", payload, last_message_id,
                              "id" \notin DOMAIN payload)
    /\ UNCHANGED <<clientVars, websocket, connection_attempts, stopped, pc,
                   startResult, outcome, transport, data, log, last, regResult, lastWait, task2>>

\* lines 239-240
Ping ==
    /\ last_message_id < MaxMsgId
    /\ SendOverWebsocket("ping", [id |-> NextMsgId(last_message_id), type |-> "ping"],
                         NextMsgId(last_message_id), TRUE)
    /\ UNCHANGED <<clientVars, websocket, connection_attempts, stopped, pc,
                   startResult, outcome, transport, data, log, last, regResult, lastWait, task2>>

\* lines 254-255
Typing ==
    /\ last_message_id < MaxMsgId
    /\ \E channel \in Channels :
         SendOverWebsocket("typing",
                           [id |-> NextMsgId(last_message_id), type |-> "typing",
                            channel |-> channel],
                           NextMsgId(last_message_id), TRUE)
    /\ UNCHANGED <<clientVars, websocket, connection_attempts, stopped, pc,
                   startResult, outcome, transport, data, log, last, regResult, lastWait, task2>>

-----------------------------------------------------------------------------
(* on and _validate_callback *)

\* the objects given to on(): two functions taking **kwargs, a function with a
\* positional parameter only, and an object that is not callable
CallbackObjects == {"h1", "h2", "positional_only", "not_callable"}

\* callable(callback), and the kinds of the parameters of its signature
IsCallable(cb) == cb # "not_callable"

ParameterKinds(cb) ==
    IF cb \in {"h1", "h2"} THEN {"VAR_KEYWORD"}
    ELSE IF cb = "positional_only" THEN {"POSITIONAL_OR_KEYWORD"}
    ELSE {}

\* the error _validate_callback raises for the callback, or None
ValidateCallback(cb) ==
    IF ~IsCallable(cb) THEN "SlackClientError"
    ELSE IF "VAR_KEYWORD" \notin ParameterKinds(cb) THEN "SlackClientError"
    ELSE None

\* the lists that list(set(...)) can give for the set S: its elements, each
\* once, in an order the program does not choose
Orders(S) == {s \in [1..Cardinality(S) -> S] : Range(s) = S}

\* the list form without the set: previous_callbacks + callback
ConcatenationOfCallbacks(previous, given) == {previous \o given}

\* list(set(previous_callbacks + callback))
UnionOfCallbacks(previous, given) == Orders(Range(previous \o given))

\* the index of the first callback of the list that does not validate, or 0
FirstInvalid(given) ==
    LET bad == {i \in 1..Len(given) : ValidateCallback(given[i]) # None}
    IN  IF bad = {} THEN 0 ELSE CHOOSE i \in bad : \A j \in bad : i <= j

\* the record of an on() call: n counts the calls, repeat says the call has the
\* arguments of the one before it
Registered(form, event, given, raised) ==
    [n |-> regResult.n + 1, form |-> form, event |-> event, given |-> given,
     raised |-> raised,
     repeat |-> /\ regResult.form = form
                /\ regResult.event = event
                /\ regResult.given = given]

\* the events and the lists on() is called with
RegEvents == {"message", "close"}

CallbackLists ==
    {<<>>} \cup {<<a>> : a \in CallbackObjects}
           \cup {<<a, b>> : a \in {"h1", "h2"}, b \in CallbackObjects}

\* on(event=..., callback=[...])
OnList ==
    /\ regResult.n < MaxReg
    /\ \E event \in RegEvents, given \in CallbackLists :
         IF FirstInvalid(given) # 0
         THEN /\ regResult' = Registered("list", event, given,
                                         ValidateCallback(given[FirstInvalid(given)]))
              /\ callbacks' = callbacks
         ELSE /\ regResult' = Registered("list", event, given, None)
              /\ \E stored \in UnionOfCallbacks(callbacks[event], given) :
                   callbacks' = [callbacks EXCEPT ![event] = stored]
    /\ UNCHANGED <<run_async, auto_reconnect, loop_running, sendVars, websocket,
                   connection_attempts, stopped, pc, startResult, outcome,
                   transport, data, log, last, lastWait, task2>>

\* on(event=..., callback=f)
OnSingle ==
    /\ regResult.n < MaxReg
    /\ \E event \in RegEvents, cb \in CallbackObjects :
         IF ValidateCallback(cb) # None
         THEN /\ regResult' = Registered("single", event, <<cb>>, ValidateCallback(cb))
              /\ callbacks' = callbacks
         ELSE /\ regResult' = Registered("single", event, <<cb>>, None)
              /\ callbacks' = [callbacks EXCEPT ![event] = Append(@, cb)]
    /\ UNCHANGED <<run_async, auto_reconnect, loop_running, sendVars, websocket,
                   connection_attempts, stopped, pc, startResult, outcome,
                   transport, data, log, last, lastWait, task2>>

-----------------------------------------------------------------------------
(* _wait_exponentially.  Delays are in tenths of a second. *)

\* random.random(), in tenths
Jitters == {0, 5, 9}

\* max_wait_time, in tenths
Ceilings == {0, 10, 100, 3000}

\* exception.response["headers"]["Retry-After"]: <<h>> for h seconds, as the
\* server meant it, and <<>> when the lookup raises KeyError or AttributeError
Hints == {<<>>, <<0>>, <<7>>, <<30>>, <<600>>}

\* the header value absent
NoHeader == <<>>

RECURSIVE Pow2(_)
Pow2(n) == IF n = 0 THEN 1 ELSE 2 * Pow2(n - 1)

Min(a, b) == IF a <= b THEN a ELSE b

\* the header as it arrives: the decimal digits of the number of seconds
RECURSIVE Digits(_)
Digits(h) == IF h < 10 THEN <<h>> ELSE Append(Digits(h \div 10), h % 10)

\* float(wait_time) of a header value, in seconds
RECURSIVE Float(_)
Float(ds) ==
    IF Len(ds) = 0 THEN 0
    ELSE 10 * Float(SubSeq(ds, 1, Len(ds) - 1)) + ds[Len(ds)]

\* a wait that keeps the server's value under the ceiling too
WaitTimeCapped(n, jitter, header, ceiling) ==
    IF header # NoHeader THEN Min(10 * Float(header), ceiling)
    ELSE Min(Pow2(n) * 10 + jitter, ceiling)

\* lines 485-493: the time slept, for attempt count n
WaitTime(n, jitter, header, ceiling) ==
    LET wait_time == Min(Pow2(n) * 10 + jitter, ceiling)
    IN  IF header # NoHeader THEN 10 * Float(header) ELSE wait_time

\* _wait_exponentially(exception, max_wait_time) is entered with
\* self._connection_attempts = n
WaitExponentially ==
    /\ \E n \in 1..MaxN, jitter \in Jitters, hint \in Hints, ceiling \in Ceilings :
         lastWait' = [n |-> n, hint |-> hint, ceiling |-> ceiling, jitter |-> jitter,
                      delay |-> WaitTime(n, jitter,
                                         IF hint = <<>> THEN NoHeader ELSE Digits(hint[1]),
                                         ceiling)]
    /\ UNCHANGED <<clientVars, sendVars, websocket, connection_attempts, stopped, pc,
                   startResult, outcome, transport, data, log, last, regResult, task2>>

-----------------------------------------------------------------------------
(* Specification of the lifecycle *)

\* the registries the lifecycle is explored with: what on() calls made before
\* start() can leave
Registries == {[e \in EventNames |-> s] : s \in {<<>>, <<"h1">>, <<"h1", "h2">>}}

InitState ==
    /\ websocket = None
    /\ last_message_id = 0
    /\ connection_attempts = 0
    /\ stopped = FALSE
    /\ pc = "idle"
    /\ startResult = None
    /\ outcome = Pending
    /\ transport = "none"
    /\ data = NoneData
    /\ log = <<>>
    /\ last = NoDispatch
    /\ sentIds = {}
    /\ dupSent = FALSE
    /\ autoIds = {}
    /\ dupAuto = FALSE
    /\ lastSend = NoSend
    /\ regResult = NoReg
    /\ lastWait = NoWait
    /\ task2 = NoTask

Init ==
    /\ callbacks \in Registries
    /\ run_async \in BOOLEAN
    /\ auto_reconnect \in BOOLEAN
    /\ loop_running \in BOOLEAN
    /\ InitState

TaskStep ==
    \/ TaskBegin
    \/ Bootstrap
    \/ BootstrapTransportFails
    \/ ConnectOk
    \/ ConnectFails
    \/ RecvText
    \/ RecvError
    \/ IterEnds
    \/ ReadCheck
    \/ SleepDone

Next ==
    \/ Start
    \/ Stop
    \/ TaskStep
    \/ PeerCloses
    \/ CloseCompletes

Spec == Init /\ [][Next]_vars

\* the lifecycle of one synchronous client with a callback for `message`,
\* together with the sending operations
SendInit ==
    /\ callbacks = [e \in EventNames |-> IF e = "message" THEN <<"h1">> ELSE <<>>]
    /\ run_async = FALSE
    /\ auto_reconnect = TRUE
    /\ loop_running = FALSE
    /\ InitState

SendNext ==
    \/ Start
    \/ Stop
    \/ TaskBegin
    \/ Bootstrap
    \/ ConnectOk
    \/ RecvText
    \/ IterEnds
    \/ ReadCheck
    \/ SleepDone
    \/ PeerCloses
    \/ CloseCompletes
    \/ Send
    \/ Ping
    \/ Typing

SendSpec == SendInit /\ [][SendNext]_vars

\* registration on a new client, before start()
RegistryInit ==
    /\ callbacks = [e \in EventNames |-> <<>>]
    /\ run_async = FALSE
    /\ auto_reconnect = TRUE
    /\ loop_running = FALSE
    /\ InitState

RegistryNext ==
    \/ OnList
    \/ OnSingle

RegistrySpec == RegistryInit /\ [][RegistryNext]_vars

\* a synchronous client on which start() is called twice before the loop runs
TwoStartNext ==
    \/ Start
    \/ StartAgain
    \/ TaskBegin
    \/ Bootstrap
    \/ ConnectOk
    \/ RecvText
    \/ SecondTaskBegin
    \/ SecondBootstrap
    \/ SecondConnectOk

TwoStartSpec == SendInit /\ [][TwoStartNext]_vars

\* the delays of _wait_exponentially, over its inputs
BackoffNext == WaitExponentially

BackoffSpec == RegistryInit /\ [][BackoffNext]_vars

\* what the scheduling of the event loop guarantees: a ready coroutine is
\* resumed, and a call that was awaited (bootstrap, handshake, sleep, close)
\* completes; frames arrive only when the peer sends them
Fairness ==
    /\ WF_vars(TaskBegin)
    /\ WF_vars(Bootstrap \/ BootstrapTransportFails)
    /\ WF_vars(ConnectOk \/ ConnectFails)
    /\ WF_vars(IterEnds)
    /\ WF_vars(ReadCheck)
    /\ WF_vars(SleepDone)
    /\ WF_vars(CloseCompletes)

FairSpec == Init /\ [][Next]_vars /\ Fairness

-----------------------------------------------------------------------------
(* Properties of the lifecycle *)

\* the results of the bootstrap calls made so far, in order
BootResults == SelectSeq(log, LAMBDA x : x \in {"bootstrap_failed", "bootstrap_ok"})

\* k failures, then one success
FailedThenOk(k) ==
    /\ Len(BootResults) = k + 1
    /\ \A i \in 1..k : BootResults[i] = "bootstrap_failed"
    /\ BootResults[k + 1] = "bootstrap_ok"

\* the connection is lost and the supervisor is still in _read_messages
DeadInReadLoop ==
    /\ pc \in {"read", "readcheck"}
    /\ transport = "closed"

\* C1: with auto_reconnect true and stop() never requested, once an open
\* connection is lost the read loop ends and the supervisor eventually begins a
\* new connection attempt (a new bootstrap call).
C1_LostConnectionLeadsToNewAttempt ==
    [](DeadInReadLoop /\ auto_reconnect /\ connection_attempts < MaxAttempts
         => <>(stopped \/ pc = "bootstrap"))

\* the log up to and including the first successful bootstrap call, and after it
FirstOk == CHOOSE j \in 1..Len(log) :
               log[j] = "bootstrap_ok" /\ \A m \in 1..(j - 1) : log[m] # "bootstrap_ok"
UpToFirstOk == SubSeq(log, 1, FirstOk)
AfterFirstOk == SubSeq(log, FirstOk + 1, Len(log))

\* what _connect_and_read did in a run whose first k bootstrap calls failed and
\* whose call k+1 succeeded: k error events, each followed by the wait and the
\* next attempt; attempt k+1 goes on to OPEN unless the handshake itself fails
RetriedUntilOpen(k) ==
    /\ outcome.origin # "bootstrap"
    /\ Count(UpToFirstOk, "error") = k
    /\ Count(UpToFirstOk, "wait") = k
    /\ Count(UpToFirstOk, "attempt") = k + 1
    /\ \A i \in 1..Len(UpToFirstOk) :
         UpToFirstOk[i] = "bootstrap_failed" =>
             SubSeq(UpToFirstOk, i + 1, i + 3) = <<"error", "wait", "attempt">>
    /\ \/ pc = "connecting"
       \/ outcome = TransportError
       \/ (AfterFirstOk # <<>> /\ AfterFirstOk[1] = "open")

\* C2: if the bootstrap call fails k times with a bootstrap error and then
\* succeeds, with auto_reconnect true and no stop(), then start() does not
\* raise, exactly k error events were emitted, each before its backoff wait,
\* and attempt k+1 is the one that goes on to OPEN.
C2_BootstrapRetries ==
    \A k \in 0..MaxAttempts :
        (auto_reconnect /\ Count(log, "stop") = 0 /\ FailedThenOk(k)) =>
            /\ startResult = "future"
            /\ RetriedUntilOpen(k)

\* C2 without "start() does not raise": what holds of _connect_and_read alone
C2_RetriesOfTheCoroutine ==
    \A k \in 0..MaxAttempts :
        (auto_reconnect /\ Count(log, "stop") = 0 /\ FailedThenOk(k)) =>
            RetriedUntilOpen(k)

\* the log from the first failed bootstrap call on
SinceBootstrapFailure ==
    LET i == CHOOSE j \in 1..Len(log) :
                 log[j] = "bootstrap_failed" /\ \A m \in 1..(j - 1) : log[m] # "bootstrap_failed"
    IN  SubSeq(log, i + 1, Len(log))

\* C3: with auto_reconnect false, a bootstrap failure makes the outcome of
\* start() carry the bootstrap error, the supervisor ends (STOPPED), no further
\* attempt is made, and `error` was emitted first and `close` second.
C3_NoReconnectPropagates ==
    (~auto_reconnect /\ Count(log, "stop") = 0 /\ Count(log, "bootstrap_failed") > 0) =>
        /\ startResult = "future"
        /\ outcome = BootstrapError
        /\ pc = "done"
        /\ SinceBootstrapFailure = <<"error", "close">>
        /\ connection_attempts = 1

\* C3 for a client whose start() returned the future and whose callbacks of
\* `error` and `close` did not raise
C3_PropagatesWhenCallbacksReturn ==
    (~auto_reconnect /\ Count(log, "stop") = 0 /\ Count(log, "bootstrap_failed") > 0
       /\ outcome.origin # "handler") =>
        /\ outcome = BootstrapError
        /\ pc = "done"
        /\ SinceBootstrapFailure = <<"error", "close">>
        /\ connection_attempts = 1

\* the callbacks a dispatch ran, in order
InvokedCallbacks(rec) == [i \in 1..Len(rec.invoked) |-> rec.invoked[i].cb]

C8_FrameDispatch ==
    (last.frame # NoFrame /\ ~last.stopped) =>
        LET f == last.frame
            ev == IF "type" \in DOMAIN f THEN f["type"] ELSE "Unknown"
        IN  /\ last.event = ev
            /\ last.raised = NoExc => InvokedCallbacks(last) = callbacks[ev]
            /\ \A i \in 1..Len(last.invoked) :
                 /\ last.invoked[i].key = ev
                 /\ last.invoked[i].cb = callbacks[ev][i]
                 /\ DOMAIN last.invoked[i].data = DOMAIN f \ {"type"}
                 /\ \A k \in DOMAIN f \ {"type"} : last.invoked[i].data[k] = f[k]

\* a frame without `type` reached the two callbacks registered for "Unknown"
C8_Witness ==
    /\ last.frame = FrameNoType
    /\ ~last.stopped
    /\ Len(last.invoked) = 2

\* C9: in concurrent mode a step in which a callback fails on a frame leaves
\* the supervisor in the read loop of the same connection: the attempt goes on,
\* no error event is emitted and no reconnect is begun.
C9_FailureIsolated ==
    [][(run_async /\ last'.frame # NoFrame /\ last'.failed # {} /\ last' # last) =>
          /\ pc' = "read"
          /\ outcome' = Pending
          /\ transport' = transport
          /\ websocket' = websocket
          /\ connection_attempts' = connection_attempts
          /\ log' = log]_vars

\* in concurrent mode the frame after one whose callback failed was dispatched
\* to its callbacks
C9_Witness ==
    /\ run_async
    /\ last.afterFailure
    /\ last.frame # NoFrame
    /\ Len(last.invoked) = 2
    /\ pc = "read"

-----------------------------------------------------------------------------
(* Properties of sending *)

\* the last call was send_over_websocket with a payload without id, and its
\* frame went out on an open connection
SentWithoutId ==
    /\ lastSend.op = "send"
    /\ "id" \notin DOMAIN lastSend.given
    /\ lastSend.sent

\* the frame has the fields of the payload, unchanged, and an id
OtherFieldsKept ==
    /\ DOMAIN lastSend.frame = DOMAIN lastSend.given \cup {"id"}
    /\ \A k \in DOMAIN lastSend.given : lastSend.frame[k] = lastSend.given[k]

\* C5 (as claimed): a payload without id sent over an open connection goes out
\* as one frame whose id is the smallest positive integer no frame of that
\* connection has used, the other fields as given.
C5_SmallestUnusedId ==
    [][(lastSend' # lastSend /\ SentWithoutId') =>
          /\ lastSend'.frame["id"] = SmallestUnused(sentIds)
          /\ OtherFieldsKept']_vars

\* C5 (amended): the id is the client's counter plus one: a positive integer
\* above every id the client has assigned, on this connection or before it.
\* The other fields are as given.
C5_CounterAssignsId ==
    [][(lastSend' # lastSend /\ SentWithoutId') =>
          /\ lastSend'.frame["id"] = last_message_id + 1
          /\ lastSend'.frame["id"] > 0
          /\ \A i \in autoIds : i < lastSend'.frame["id"]
          /\ sentIds' = sentIds \cup {lastSend'.frame["id"]}
          /\ OtherFieldsKept']_vars

\* a send without id is the first frame of the second connection and gets id 3,
\* ids 1 and 2 having been assigned before
C5_Witness ==
    /\ SentWithoutId
    /\ connection_attempts = 2
    /\ lastSend.frame = WithId(BasePayload, 3)
    /\ sentIds = {3}

\* C6 (as claimed): on one connection no two transmitted frames carry the same
\* id and every transmitted id is positive, whatever mix of send with an id,
\* send without, ping and typing.
C6_UniquePositiveIds ==
    /\ ~dupSent
    /\ \A i \in sentIds : i > 0

\* what the code does keep: on one connection the frames whose id the client
\* assigned (send without id, ping, typing) carry distinct positive ids.
C6_AssignedIdsUniquePositive ==
    /\ ~dupAuto
    /\ \A i \in autoIds : i > 0

\* three frames with assigned ids went out on one connection
C6_Witness ==
    /\ Cardinality(autoIds) = 3
    /\ lastSend.op = "typing"
    /\ lastSend.sent

\* C7: send fails with the not-connected error and transmits nothing whenever
\* no transport is open.
C7_NotConnectedWhenNoTransport ==
    [][(lastSend' # lastSend /\ lastSend'.op = "send" /\ transport # "open") =>
          /\ lastSend'.raised = "SlackClientNotConnectedError"
          /\ ~lastSend'.sent]_vars

\* what the code does: the error is raised exactly when the handle is None,
\* and nothing goes out unless the transport is open
C7_RaisesWithoutHandle ==
    [][(lastSend' # lastSend) =>
          /\ (lastSend'.raised = "SlackClientNotConnectedError") = (websocket = None)
          /\ lastSend'.sent => transport = "open"]_vars

-----------------------------------------------------------------------------
(* Properties of registration *)

\* a callback on() must refuse: not callable, or without a **kwargs parameter
LacksKeywordBag(cb) == cb \in {"positional_only", "not_callable"}

NoDuplicates(s) == Len(s) = Cardinality(Range(s))

\* C10: on() raises the configuration error whenever a callback given to it is
\* not callable or takes no **kwargs, and then stores nothing; the list form
\* stores the set union of the callbacks already stored and those given, each
\* once, so giving the same valid callback twice leaves one reference to it.
C10_RegistrationValidatesAndUnites ==
    [][(regResult'.n # regResult.n) =>
          LET r == regResult' IN
          /\ (r.raised = "SlackClientError") =
                 (\E i \in 1..Len(r.given) : LacksKeywordBag(r.given[i]))
          /\ r.raised # None => callbacks' = callbacks
          /\ \A e \in EventNames \ {r.event} : callbacks'[e] = callbacks[e]
          /\ (r.form = "list" /\ r.raised = None) =>
                 /\ Range(callbacks'[r.event]) = Range(callbacks[r.event]) \cup Range(r.given)
                 /\ NoDuplicates(callbacks'[r.event])
          /\ (r.form = "list" /\ r.raised = None /\ r.repeat) =>
                 Range(callbacks'[r.event]) = Range(callbacks[r.event])]_vars

\* the same valid callback was given twice in list form and is stored once
C10_Witness ==
    /\ regResult.n = 2
    /\ regResult.form = "list"
    /\ regResult.repeat
    /\ regResult.given = <<"h1">>
    /\ callbacks[regResult.event] = <<"h1">>

-----------------------------------------------------------------------------
(* Properties of the reconnect delay *)

\* C11: without a Retry-After value the delay is at least 0 and at most the
\* ceiling, for every attempt count; with one, the delay is that value, whatever
\* the attempt count and the ceiling, also above the ceiling.
C11_DelayBoundedOrHint ==
    lastWait.n > 0 =>
        /\ lastWait.hint = <<>> =>
              /\ lastWait.delay >= 0
              /\ lastWait.delay <= lastWait.ceiling
        /\ lastWait.hint # <<>> => lastWait.delay = 10 * lastWait.hint[1]

\* a Retry-After of 600 s was slept in full under a ceiling of 1 s
C11_Witness ==
    /\ lastWait.n = 3
    /\ lastWait.hint = <<600>>
    /\ lastWait.ceiling = 10
    /\ lastWait.delay = 6000

-----------------------------------------------------------------------------
(* Properties of stop *)

\* the step is a call of stop(); last' is then the dispatch the call made
StopCalled == Count(log', "stop") > Count(log, "stop")

\* C12: a stop() call on a client already stopped changes no state of the
\* client and emits no event: no `close` reaches the callbacks of `close`.
C12_SecondStopIsNoOp ==
    [][(stopped /\ StopCalled) =>
          /\ UNCHANGED <<callbacks, websocket, transport, stopped, last_message_id,
                         connection_attempts>>
          /\ last'.invoked = <<>>]_vars

-----------------------------------------------------------------------------
(* Properties of the `open` event *)

\* the log of the current attempt: what follows the last "attempt"
SinceAttempt(l) ==
    LET starts == {j \in 1..Len(l) : l[j] = "attempt"}
        i == IF starts = {} THEN 0 ELSE CHOOSE j \in starts : \A m \in starts : m <= j
    IN  SubSeq(l, i + 1, Len(l))

\* C13: every handshake that succeeds dispatches `open` once for the connection,
\* with the data the bootstrap call of that attempt returned, and no frame of
\* the connection is dispatched before it.
C13_OpenOncePerConnection ==
    /\ [](Count(SinceAttempt(log), "open") <= 1)
    /\ []((pc \in {"read", "readcheck"}) =>
              /\ Count(SinceAttempt(log), "open") = 1
              /\ Count(SinceAttempt(log), "bootstrap_ok") = 1)
    /\ [][ConnectOk => Count(log', "open") = Count(log, "open") + 1]_vars
    /\ [][(Count(log', "open") > Count(log, "open") /\ last'.event = "open") =>
              /\ last'.data = data
              /\ last'.frame = NoFrame]_vars
    /\ [][(last'.frame # NoFrame /\ last' # last) =>
              Count(SinceAttempt(log), "open") = 1]_vars

\* the second connection was opened and its `open` carried the payload of the
\* second bootstrap call to both callbacks
C13_Witness ==
    /\ connection_attempts = 2
    /\ Count(log, "open") = 2
    /\ pc = "read"
    /\ last.event = "open"
    /\ last.data = [self |-> "U2"]
    /\ Len(last.invoked) = 2

-----------------------------------------------------------------------------
(* Properties of failures inside an attempt *)

\* the supervisor treated the failure of the step as retryable: `error` was
\* emitted, the backoff wait was begun and the task goes on
RetriedAfter(l) ==
    /\ pc' = "wait"
    /\ log' = l \o <<"error", "wait">>
    /\ outcome' = Pending

\* C14: in synchronous mode, with auto_reconnect and no stop requested, a
\* callback that fails on an inbound frame ends the attempt as a transport error
\* would: `error` is emitted, the wait runs (a new attempt follows it), and
\* start() has not raised.
C14_HandlerFailureRetried ==
    [][(~run_async /\ auto_reconnect /\ ~stopped /\ RecvText /\ pc' # "read") =>
          /\ RetriedAfter(log)
          /\ startResult = "future"]_vars

\* C15: with auto_reconnect and no stop requested, a transport failure of the
\* bootstrap request or of the handshake is retried: `error` is emitted with
\* the failure, the wait is begun and the failure does not end the task.
C15_ConnectFailureRetried ==
    [][(auto_reconnect /\ ~stopped /\ (ConnectFails \/ BootstrapTransportFails)) =>
          /\ RetriedAfter(log)
          /\ last'.event = "error"
          /\ last'.data = TransportError]_vars

\* C16: the step of the task that follows an ERROR frame (no stop requested,
\* auto_reconnect set) does not read the websocket again: it hands the failure
\* to the supervisor, which emits `error` and begins the backoff wait before
\* the next attempt.
C16_ErrorFrameReachesSupervisor ==
    [][(/\ pc = "readcheck"
        /\ pc' # pc
        /\ Len(log) > 0
        /\ log[Len(log)] = "error_frame"
        /\ auto_reconnect
        /\ ~stopped) =>
          /\ pc' # "read"
          /\ RetriedAfter(log)]_vars

-----------------------------------------------------------------------------
(* Properties after stop() *)

\* C17: once stop() was requested no connection attempt begins: the attempt
\* counter stays as it is and no bootstrap call is issued, whatever the task was
\* doing (waiting, reading, connecting, or not yet started).
C17_NoAttemptAfterStop ==
    [][stopped =>
          /\ connection_attempts' = connection_attempts
          /\ Count(log', "attempt") = Count(log, "attempt")
          /\ pc' = "bootstrap" => pc = "bootstrap"]_vars

\* stop() arrived during the backoff wait; the wait elapsed and the task ended
\* without another attempt
C17_Witness ==
    /\ stopped
    /\ pc = "done"
    /\ outcome = Returned
    /\ Len(log) >= 3
    /\ SubSeq(log, Len(log) - 2, Len(log)) = <<"wait", "stop", "close">>
    /\ Count(log, "attempt") = connection_attempts

\* C18: once stop() was requested on a client whose task was scheduled, the
\* task ends and its future is completed, whatever it was doing when stop()
\* came, given that what it awaits completes.
C18_StopLeadsToTermination ==
    (stopped /\ pc # "idle") ~> (pc = "done" /\ outcome # Pending)

\* stop() came while the connection was open and the task returned
C18_Witness ==
    /\ stopped
    /\ pc = "done"
    /\ outcome = Returned
    /\ Len(log) >= 3
    /\ SubSeq(log, Len(log) - 2, Len(log)) = <<"open", "stop", "close">>
    /\ Count(log, "stop") = 1
    /\ transport = "closed"

-----------------------------------------------------------------------------
(* Properties of the tasks of one client *)

\* a task is inside a connection attempt; it is in its read loop
InAttempt(p) == p \in {"bootstrap", "connecting", "read", "readcheck"}
InReadLoop(p) == p \in {"read", "readcheck"}

\* C19: a client has at most one connection attempt active and at most one
\* read loop running.
C19_OneAttemptOneReadLoop ==
    /\ ~(InAttempt(pc) /\ InAttempt(task2.pc))
    /\ ~(InReadLoop(pc) /\ InReadLoop(task2.pc))

-----------------------------------------------------------------------------
(* Properties of a send that fails *)

\* C20: a ping(), typing() or send that fails as not connected leaves the
\* client as it was; the id counter keeps its value, no id is used up.
C20_FailedSendChangesNothing ==
    [][(lastSend' # lastSend /\ lastSend'.raised = "SlackClientNotConnectedError") =>
          /\ last_message_id' = last_message_id
          /\ UNCHANGED <<callbacks, websocket, connection_attempts, stopped,
                         transport>>]_vars

-----------------------------------------------------------------------------
(* Properties of the close event over the lifetime of a client *)

\* C21: over the whole lifetime of a client the `close` event is dispatched
\* at most once, however the stop() calls interleave with the failures that
\* end the supervisor.
C21_CloseDispatchedAtMostOnce == Count(log, "close") <= 1

\* the same with a single stop() call: the only other dispatch of `close` is
\* the one the except clause of _connect_and_read makes
C21_AtMostOnceWithOneStop ==
    Count(log, "stop") <= 1 => Count(log, "close") <= 1

-----------------------------------------------------------------------------
(* Properties of the handle after stop *)

\* C22: after stop() has been requested the client never again holds a
\* transport handle: in every later state self._websocket is None, also when
\* stop() arrives while the bootstrap call or the handshake of the current
\* attempt is in flight.
C22_NoHandleAfterStop == stopped => websocket = None

\* what holds after stop(): a handle the client still holds names a websocket
\* that is closed or closing, never one that is open
C22_NoOpenTransportAfterStop ==
    (stopped /\ websocket # None) => transport \in {"closed", "closing"}

-----------------------------------------------------------------------------
(* Properties of start *)

\* C23: the assertion in start() is never violated: in every configuration
\* (synchronous or concurrent run mode, event loop running or not) start()
\* schedules the connect-and-read task and returns its future, without
\* raising an assertion failure.
C23_StartReturnsFuture ==
    /\ startResult # "AssertionError"
    /\ pc # "idle" => startResult = "future"

\* what holds of start(): the task is scheduled in every configuration, and
\* the future is returned exactly when the client runs synchronously on a
\* loop that is not running
C23_StartSchedulesTask ==
    /\ startResult # None => pc # "idle"
    /\ pc # "idle" =>
         (startResult = "future" <=> (~run_async /\ ~loop_running))

====
